---- MODULE Spec2Model ----
(***************************************************************************)
(* passgen: the password composer of src/src/passall.tsx.                  *)
(*                                                                         *)
(* Strings are sequences of UTF-16 code units (numbers), so that case      *)
(* conversion, slicing, charAt and the Caesar shift are computed on the    *)
(* code units the way the JavaScript does.  Math.random() is an input: a   *)
(* value r is the numerator of r / RandDenom, and the functions that call  *)
(* Math.random() take the sequence rs of the values it returns, in the     *)
(* order the code draws them.                                              *)
(***************************************************************************)
EXTENDS Integers, Sequences, FiniteSets, TLC

(* ------------------------------ bounds -------------------------------- *)

\* Math.random() returns r / RandDenom for a numerator r in RandSamples.
RandDenom == 100

\* The Math.random() values the model draws: 0, below 0.5, above 0.5, and
\* the value next to 1.
RandSamples == <<0, 40, 60, 99>>

\* Requested password lengths are MinLength..MaxLength.
MaxLength == 9

\* fetchRandomWord is called directly with maxLength in 1..MaxWordLength.
MaxWordLength == 5

\* Number of fetchRandomWord calls (direct or through generatePassword).
MaxCalls == 2

\* Caesar phrases have at most MaxTextLen characters.
MaxTextLen == 2

\* Word fetches started from the Generate button in one behaviour.
MaxAppRuns == 1

\* The clock of the copy button runs up to MaxClock milliseconds.
MaxClock == 3000

(* --------------------------- program constants ------------------------ *)

\* <input type="range" min={4} max={32}> of the length slider.
MinLength == 4

\* max={32} of the length slider
MaxSliderLength == 32

\* setTimeout(..., 2000) in handleCopy
CopyResetMs == 2000

\* Math.min(length, 8) in generatePassword.
WordCap == 8

\* Alphabet size of the Caesar shift: % 26.
AlphabetSize == 26

\* <input type="range" min={1} max={25}> of the shift slider.
MinShift == 1

MaxShift == 25

(* ------------------------------ strings ------------------------------- *)

Range(s) == {s[k] : k \in 1..Len(s)}

RECURSIVE Flatten(_)
\* The concatenation of a sequence of strings (Array.prototype.join("")).
Flatten(ss) == IF ss = <<>> THEN <<>> ELSE Head(ss) \o Flatten(Tail(ss))

\* s.charAt(k), k counted from 0: the empty string when k is out of range.
CharAt(s, k) == IF k >= 0 /\ k < Len(s) THEN <<s[k + 1]>> ELSE <<>>

Min(a, b) == IF a <= b THEN a ELSE b

\* s.slice(from, to) for 0 <= from, to counted from 0 and clamped to the length.
Slice(s, from, to) == SubSeq(s, Min(from, Len(s)) + 1, Min(to, Len(s)))

\* s.slice(from)
SliceFrom(s, from) == SubSeq(s, Min(from, Len(s)) + 1, Len(s))

\* The first n elements of rs dropped: the random values still to be drawn.
Drop(rs, n) == SubSeq(rs, n + 1, Len(rs))

\* One code unit's toUpperCase(), for the code units 0..255 and 304:
\* a-z and the Latin-1 lower-case letters move down by 32, the sharp s
\* becomes "SS", the micro sign and y-diaeresis leave Latin-1.
CharToUpper(c) ==
    IF c >= 97 /\ c <= 122 THEN <<c - 32>>
    ELSE IF c = 181 THEN <<924>>
    ELSE IF c = 223 THEN <<83, 83>>
    ELSE IF c >= 224 /\ c <= 254 /\ c # 247 THEN <<c - 32>>
    ELSE IF c = 255 THEN <<376>>
    ELSE <<c>>

\* One code unit's toLowerCase(), for the code units 0..255 and 304:
\* A-Z and the Latin-1 capitals move up by 32, the dotted capital I
\* becomes "i" followed by a combining dot.
CharToLower(c) ==
    IF c >= 65 /\ c <= 90 THEN <<c + 32>>
    ELSE IF c >= 192 /\ c <= 222 /\ c # 215 THEN <<c + 32>>
    ELSE IF c = 304 THEN <<105, 775>>
    ELSE <<c>>

toUpperCase(s) == Flatten([k \in 1..Len(s) |-> CharToUpper(s[k])])

toLowerCase(s) == Flatten([k \in 1..Len(s) |-> CharToLower(s[k])])

\* Math.floor(Math.random() * n) for Math.random() = r / RandDenom.
FloorRandom(r, n) == (r * n) \div RandDenom

\* The sequence of n Math.random() values of one run: the samples taken
\* cyclically from position seed in steps of stride.
Tape(seed, stride, n) ==
    [k \in 1..n |-> RandSamples[((seed + (k - 1) * stride) % Len(RandSamples)) + 1]]

\* Enough values for every draw of one generatePassword call.
TapeLen == 3 * MaxLength

Tapes ==
    {Tape(seed, stride, TapeLen) :
        seed \in 0..(Len(RandSamples) - 1), stride \in 0..(Len(RandSamples) - 1)}

(* ----------------------------- alphabets ------------------------------ *)

\* !@#$%^&*()_+{}:"<>?|[];',./`~\
symbols == <<33, 64, 35, 36, 37, 94, 38, 42, 40, 41, 95, 43, 123, 125, 58, 34, 60, 62, 63, 124, 91, 93, 59, 39, 44, 46, 47, 96, 126, 92>>

lower == [k \in 1..26 |-> 96 + k]

upper == toUpperCase(lower)

numbers == [k \in 1..10 |-> 47 + k]

localWordsLiteral ==
   <<
      <<97, 118, 111, 99, 97, 100, 111>>,  \* avocado
      <<98, 97, 109, 98, 111, 111>>,  \* bamboo
      <<99, 97, 115, 99, 97, 100, 101>>,  \* cascade
      <<100, 101, 108, 105, 103, 104, 116>>,  \* delight
      <<101, 99, 104, 111>>,  \* echo
      <<102, 108, 97, 109, 105, 110, 103, 111>>,  \* flamingo
      <<103, 97, 122, 101, 108, 108, 101>>,  \* gazelle
      <<104, 97, 114, 109, 111, 110, 121>>,  \* harmony
      <<105, 118, 111, 114, 121>>,  \* ivory
      <<106, 117, 98, 105, 108, 101, 101>>,  \* jubilee
      <<107, 111, 97, 108, 97>>,  \* koala
      <<108, 97, 103, 111, 111, 110>>,  \* lagoon
      <<109, 97, 110, 103, 111>>,  \* mango
      <<110, 105, 114, 118, 97, 110, 97>>,  \* nirvana
      <<111, 99, 116, 111, 112, 117, 115>>,  \* octopus
      <<112, 101, 110, 103, 117, 105, 110>>,  \* penguin
      <<113, 117, 97, 115, 97, 114>>,  \* quasar
      <<114, 97, 105, 110, 98, 111, 119>>,  \* rainbow
      <<115, 117, 110, 115, 101, 116>>,  \* sunset
      <<116, 117, 110, 100, 114, 97>>,  \* tundra
      <<117, 109, 98, 114, 97>>,  \* umbra
      <<118, 111, 114, 116, 101, 120>>,  \* vortex
      <<119, 97, 116, 101, 114, 102, 97, 108, 108>>,  \* waterfall
      <<120, 121, 108, 111, 112, 104, 111, 110, 101>>,  \* xylophone
      <<121, 101, 108, 108, 111, 119>>,  \* yellow
      <<122, 101, 98, 114, 97>>,  \* zebra
      <<97, 108, 112, 105, 110, 101>>,  \* alpine
      <<98, 108, 111, 115, 115, 111, 109>>,  \* blossom
      <<99, 111, 114, 97, 108>>,  \* coral
      <<100, 111, 108, 112, 104, 105, 110>>,  \* dolphin
      <<101, 118, 101, 114, 103, 114, 101, 101, 110>>,  \* evergreen
      <<102, 105, 114, 101, 102, 108, 121>>,  \* firefly
      <<103, 108, 97, 99, 105, 101, 114>>,  \* glacier
      <<104, 111, 110, 101, 121, 100, 101, 119>>,  \* honeydew
      <<105, 115, 108, 97, 110, 100>>,  \* island
      <<106, 117, 110, 103, 108, 101>>,  \* jungle
      <<107, 105, 119, 105>>,  \* kiwi
      <<108, 105, 103, 104, 116, 104, 111, 117, 115, 101>>,  \* lighthouse
      <<109, 111, 117, 110, 116, 97, 105, 110>>,  \* mountain
      <<110, 101, 98, 117, 108, 97>>,  \* nebula
      <<111, 97, 115, 105, 115>>,  \* oasis
      <<112, 101, 97, 99, 111, 99, 107>>,  \* peacock
      <<113, 117, 97, 114, 116, 122>>,  \* quartz
      <<114, 105, 118, 101, 114>>,  \* river
      <<115, 116, 97, 114, 108, 105, 103, 104, 116>>,  \* starlight
      <<116, 114, 111, 112, 105, 99, 97, 108>>,  \* tropical
      <<117, 110, 105, 99, 111, 114, 110>>,  \* unicorn
      <<118, 111, 108, 99, 97, 110, 111>>,  \* volcano
      <<119, 104, 105, 114, 108, 112, 111, 111, 108>>,  \* whirlpool
      <<120, 101, 110, 111, 110>>,  \* xenon
      <<99, 97, 116, 115>>,  \* cats
      <<100, 111, 103, 115>>,  \* dogs
      <<100, 117, 99, 107>>,  \* duck
      <<103, 111, 108, 102>>,  \* golf
      <<106, 97, 122, 122>>,  \* jazz
      <<111, 119, 108, 115>>,  \* owls
      <<109, 111, 111, 110>>   \* moon
   >>

localWords == SelectSeq(localWordsLiteral, LAMBDA word : Len(word) >= 4)

\* The array literal of the older copy of the generator (part_000): the
\* same words up to "xenon", without the seven four-letter words after it.
localWordsLiteral000 == SubSeq(localWordsLiteral, 1, 50)

localWords000 == SelectSeq(localWordsLiteral000, LAMBDA word : Len(word) >= 4)

vowels == <<97, 101, 105, 111, 117>>

\* bcdfghjklmnpqrstvwxyz
consonants == <<98, 99, 100, 102, 103, 104, 106, 107, 108, 109, 110, 112, 113, 114, 115, 116, 118, 119, 120, 121, 122>>

(* --------------------------- JavaScript values ------------------------ *)

\* The values a decoded JSON body and its parts can be, tagged by type.
\* Thrown stands for an evaluation that throws a TypeError instead of
\* yielding a value.
Undefined == [t |-> "undefined"]

Null == [t |-> "null"]

Thrown == [t |-> "throw"]

Bool(b) == [t |-> "boolean", b |-> b]

Num(n) == [t |-> "number", n |-> n]

Str(s) == [t |-> "string", s |-> s]

Arr(a) == [t |-> "array", a |-> a]

Obj(o) == [t |-> "object", o |-> o]

\* data[k]: a TypeError on null and undefined, the k-th element of an array,
\* the k-th character of a string, undefined when there is no such property
\* (also for k = -1, which stands for the key NaN).
Index(data, k) ==
    IF data.t \in {"throw", "null", "undefined"} THEN Thrown
    ELSE IF data.t = "array"
         THEN IF k >= 0 /\ k < Len(data.a) THEN data.a[k + 1] ELSE Undefined
    ELSE IF data.t = "string"
         THEN IF k >= 0 /\ k < Len(data.s) THEN Str(<<data.s[k + 1]>>) ELSE Undefined
    ELSE Undefined

\* v?.word
OptWord(v) ==
    IF v.t = "throw" THEN Thrown
    ELSE IF v.t = "object" /\ "word" \in DOMAIN v.o THEN v.o.word
    ELSE Undefined

\* v.length
LengthOf(v) ==
    IF v.t \in {"throw", "null", "undefined"} THEN Thrown
    ELSE IF v.t = "string" THEN Num(Len(v.s))
    ELSE IF v.t = "array" THEN Num(Len(v.a))
    ELSE IF v.t = "object" /\ "length" \in DOMAIN v.o THEN v.o.length
    ELSE Undefined

\* ToBoolean(v)
Truthy(v) ==
    IF v.t \in {"undefined", "null"} THEN FALSE
    ELSE IF v.t = "boolean" THEN v.b
    ELSE IF v.t = "number" THEN v.n # 0
    ELSE IF v.t = "string" THEN v.s # <<>>
    ELSE TRUE

\* v <= n for a number n: undefined compares false (NaN), null counts as 0.
\* (No body of the model holds a length property that is a string, an array
\* or an object.)
LessEqNumber(v, n) ==
    IF v.t = "number" THEN v.n <= n
    ELSE IF v.t = "null" THEN 0 <= n
    ELSE FALSE

NumApis == 4

\* WORD_APIS[api].parser(data), api counted from 0; r is the value of the
\* Math.random() call of the Datamuse parser.
parser(api, data, r) ==
    IF api = 1
    THEN LET len == LengthOf(data)
         IN  IF len.t = "throw" THEN Thrown
             ELSE OptWord(Index(data, IF len.t = "number"
                                      THEN FloorRandom(r, len.n) ELSE -1))
    ELSE IF api = 2 THEN OptWord(Index(data, 0))
    ELSE Index(data, 0)

\* A slip: the length test left out.
WordAcceptedAnyLength(word, maxLength) == Truthy(word)

\* word && word.length <= maxLength
WordAccepted(word, maxLength) ==
    Truthy(word) /\ LessEqNumber(LengthOf(word), maxLength)

(* --------------------------- pure functions --------------------------- *)

randomizeCase(word, rs) ==
    Flatten([k \in 1..Len(word) |->
                IF 2 * rs[k] > RandDenom THEN CharToUpper(word[k])
                                         ELSE CharToLower(word[k])])

applyWordCase(word, caseType, rs) ==
    IF caseType = "lower" THEN toLowerCase(word)
    ELSE IF caseType = "upper" THEN toUpperCase(word)
    ELSE IF caseType = "random" THEN randomizeCase(word, rs)
    ELSE word

\* The Math.random() calls applyWordCase(word, caseType) makes.
CaseDraws(word, caseType) == IF caseType = "random" THEN Len(word) ELSE 0

\* A slip in the parity test: the vowel first.
generateFallbackWordVowelFirst(length, rs) ==
    Flatten([k \in 1..length |->
                IF (k - 1) % 2 = 1
                THEN CharAt(consonants, FloorRandom(rs[k], Len(consonants)))
                ELSE CharAt(vowels, FloorRandom(rs[k], Len(vowels)))])

generateFallbackWord(length, rs) ==
    Flatten([k \in 1..length |->
                IF (k - 1) % 2 = 0
                THEN CharAt(consonants, FloorRandom(rs[k], Len(consonants)))
                ELSE CharAt(vowels, FloorRandom(rs[k], Len(vowels)))])

\* A slip in the index bound: charSet.length + 1 lets charAt run past the end.
generateRandomCharsPastEnd(length, charSet, rs) ==
    Flatten([k \in 1..length |->
                CharAt(charSet, FloorRandom(rs[k], Len(charSet) + 1))])

generateRandomChars(length, charSet, rs) ==
    Flatten([k \in 1..length |-> CharAt(charSet, FloorRandom(rs[k], Len(charSet)))])

\* A slip: the dictionary used without the length filter.
validWordsUnfiltered(maxLength) == localWords

\* A slip: < for <= in the length filter.
validWordsStrict(maxLength) == SelectSeq(localWords, LAMBDA word : Len(word) < maxLength)

\* localWords.filter(word => word.length <= maxLength)
validWordsFor(maxLength) == SelectSeq(localWords, LAMBDA word : Len(word) <= maxLength)

\* The local fallback of fetchRandomWord: a dictionary word, or a synthetic
\* one when validWords[...] is undefined.
localFallback(maxLength, rs) ==
    LET validWords == validWordsFor(maxLength)
        idx == FloorRandom(rs[1], Len(validWords))
    IN  IF idx < Len(validWords) /\ validWords[idx + 1] # <<>>
        THEN validWords[idx + 1]
        ELSE generateFallbackWord(maxLength, Drop(rs, 1))

\* The same fallback in the older copy, over its own word list.
validWordsFor000(maxLength) ==
    SelectSeq(localWords000, LAMBDA word : Len(word) <= maxLength)

localFallback000(maxLength, rs) ==
    LET validWords == validWordsFor000(maxLength)
        idx == FloorRandom(rs[1], Len(validWords))
    IN  IF idx < Len(validWords) /\ validWords[idx + 1] # <<>>
        THEN validWords[idx + 1]
        ELSE generateFallbackWord(maxLength, Drop(rs, 1))

\* The fallback of the copy of fetchRandomWord that the caller's file holds.
localFallbackFor(caller, maxLength, rs) ==
    IF caller = "generatePassword000"
    THEN localFallback000(maxLength, rs)
    ELSE localFallback(maxLength, rs)

\* The character set generatePassword builds from the flags.
buildCharSet(options) ==
       (IF options.lower THEN lower ELSE <<>>)
    \o (IF options.upper THEN upper ELSE <<>>)
    \o (IF options.numbers THEN numbers ELSE <<>>)
    \o (IF options.symbols THEN symbols ELSE <<>>)

\* insertPos = Math.floor(Math.random() * (randomChars.length + 1))
insertPosFor(r, randomChars) == FloorRandom(r, Len(randomChars) + 1)

\* A slip: the word written over the filler character at insertPos.
spliceOverwrite(randomChars, insertPos, caseAdjustedWord) ==
    Slice(randomChars, 0, insertPos) \o caseAdjustedWord \o SliceFrom(randomChars, insertPos + 1)

\* randomChars.slice(0, insertPos) + caseAdjustedWord + randomChars.slice(insertPos)
splice(randomChars, insertPos, caseAdjustedWord) ==
    Slice(randomChars, 0, insertPos) \o caseAdjustedWord \o SliceFrom(randomChars, insertPos)

\* A slip in the branch without filler: the word returned without slice(0, length).
composeWithWordUncut(length, charSet, wordCase, word, rs) ==
    LET caseAdjustedWord == applyWordCase(word, wordCase, rs)
        rest == Drop(rs, CaseDraws(word, wordCase))
        remainingLength == length - Len(caseAdjustedWord)
    IN  IF charSet # <<>> /\ remainingLength > 0
        THEN LET randomChars == generateRandomChars(remainingLength, charSet, rest)
                 insertPos == insertPosFor(rest[remainingLength + 1], randomChars)
             IN  [caseAdjustedWord |-> caseAdjustedWord,
                  randomChars |-> randomChars,
                  insertPos |-> insertPos,
                  password |-> splice(randomChars, insertPos, caseAdjustedWord)]
        ELSE [caseAdjustedWord |-> caseAdjustedWord,
              randomChars |-> <<>>,
              insertPos |-> 0,
              password |-> caseAdjustedWord]

\* generatePassword after the await, for a word that is a string: the
\* locals and the returned password.
composeWithWord(length, charSet, wordCase, word, rs) ==
    LET caseAdjustedWord == applyWordCase(word, wordCase, rs)
        rest == Drop(rs, CaseDraws(word, wordCase))
        remainingLength == length - Len(caseAdjustedWord)
    IN  IF charSet # <<>> /\ remainingLength > 0
        THEN LET randomChars == generateRandomChars(remainingLength, charSet, rest)
                 insertPos == insertPosFor(rest[remainingLength + 1], randomChars)
             IN  [caseAdjustedWord |-> caseAdjustedWord,
                  randomChars |-> randomChars,
                  insertPos |-> insertPos,
                  password |-> splice(randomChars, insertPos, caseAdjustedWord)]
        ELSE [caseAdjustedWord |-> caseAdjustedWord,
              randomChars |-> <<>>,
              insertPos |-> 0,
              password |-> Slice(caseAdjustedWord, 0, length)]

\* The older copy of generatePassword (part_000) after its await: without a
\* character set the case-adjusted word cut to length, with one the word
\* cut to length when it leaves no room, else spliced into the filler.
composeWithWord000(length, charSet, wordCase, word, rs) ==
    LET caseAdjustedWord == applyWordCase(word, wordCase, rs)
        rest == Drop(rs, CaseDraws(word, wordCase))
        remainingLength == length - Len(caseAdjustedWord)
    IN  IF charSet = <<>> \/ remainingLength <= 0
        THEN [caseAdjustedWord |-> caseAdjustedWord,
              randomChars |-> <<>>,
              insertPos |-> 0,
              password |-> Slice(caseAdjustedWord, 0, length)]
        ELSE LET randomChars == generateRandomChars(remainingLength, charSet, rest)
                 insertPos == insertPosFor(rest[remainingLength + 1], randomChars)
             IN  [caseAdjustedWord |-> caseAdjustedWord,
                  randomChars |-> randomChars,
                  insertPos |-> insertPos,
                  password |-> splice(randomChars, insertPos, caseAdjustedWord)]

\* The maxLength the older copy passes to fetchRandomWord: length itself on
\* its path without a character set, Math.min(length, 8) on the other.
wordBound000(length, charSet) ==
    IF charSet = <<>> THEN length ELSE Min(length, WordCap)

\* JavaScript's % : the result has the sign of the dividend.
JsMod(a, b) == IF a >= 0 THEN a % b ELSE -((-a) % b)

\* /[a-z]/i without the u flag matches exactly the ASCII letters.
IsAsciiLetter(c) == (c >= 97 /\ c <= 122) \/ (c >= 65 /\ c <= 90)

\* A slip: the shift added without wrapping at the end of the alphabet.
caesarReplaceNoWrap(c, shift) == c + shift

\* A slip: the base of the lower-case letters used for both cases.
caesarReplaceLowerBase(c, shift) == JsMod(c - 97 + shift + 26, AlphabetSize) + 97

\* The replacement callback of caesarCipher for one matched character.
caesarReplace(c, shift) ==
    LET base == IF c >= 97 /\ c <= 122 THEN 97 ELSE 65
    IN  JsMod(c - base + shift + 26, AlphabetSize) + base

caesarCipher(text, shift) ==
    [k \in 1..Len(text) |->
        IF IsAsciiLetter(text[k]) THEN caesarReplace(text[k], shift) ELSE text[k]]

(* ------------------------------- inputs ------------------------------- *)

\* Words a provider may deliver: "", "aZ", "ßabc" (sharp s), "koala",
\* "waterfall".
ProviderWords ==
    { <<>>, <<97, 90>>, <<223, 97, 98, 99>>,
      <<107, 111, 97, 108, 97>>,
      <<119, 97, 116, 101, 114, 102, 97, 108, 108>> }

\* Decoded JSON bodies a provider may deliver: null, [], [42], [true], a
\* nested array [["aZ"]], an object that is no array {"word": "aZ"}, and the
\* two shapes the parsers expect, ["w"] and [{"word": "w"}].
Bodies ==
    { Null, Arr(<<>>), Arr(<<Num(42)>>), Arr(<<Bool(TRUE)>>),
      Arr(<<Arr(<<Str(<<97, 90>>)>>)>>),
      Obj([word |-> Str(<<97, 90>>)]) }
    \cup {Arr(<<Str(w)>>) : w \in ProviderWords}
    \cup {Arr(<<Obj([word |-> Str(w)])>>) : w \in ProviderWords}

Lengths == MinLength..MaxLength

Options == [lower : BOOLEAN, upper : BOOLEAN, numbers : BOOLEAN,
            symbols : BOOLEAN, word : BOOLEAN]

WordCases == {"lower", "upper", "random"}

\* Characters of the Caesar phrases: a z A Z m, space, and the neighbours
\* of the letter ranges @ [ ` {, and e-acute.
CaesarChars == {97, 122, 65, 90, 109, 32, 64, 91, 96, 123, 233}

\* "Attack At Dawn"
AttackAtDawn == <<65, 116, 116, 97, 99, 107, 32, 65, 116, 32, 68, 97, 119, 110>>

CaesarTexts ==
    UNION {[1..n -> CaesarChars] : n \in 0..MaxTextLen} \cup {AttackAtDawn}

Shifts == MinShift..MaxShift

\* Phrases entered in cipher mode: "", "z", "aZ", "z {a" and
\* "Attack At Dawn", which is longer than the lengths of the model.
CipherPhrases ==
    { <<>>, <<122>>, <<97, 90>>, <<122, 32, 123, 97>>, AttackAtDawn }

\* Shifts chosen in cipher mode: both ends of the slider and its default.
CipherShifts == {MinShift, 3, MaxShift}

(* -------------------------------- state ------------------------------- *)

VARIABLES
    settings,   \* the App's length, options and wordCase, the arguments of generatePassword
    apiIndex,   \* let apiIndex: the rotation cursor
    apiIndex000, \* let apiIndex of the older copy, a module of its own
    requests,   \* history: the provider index of every request issued
    starts,     \* history: Len(requests) at the start of each fetchRandomWord call
    fw,         \* the frame of the fetchRandomWord call
    gp,         \* the frame of the generatePassword call
    cz,         \* the last caesarCipher evaluation and its decoding
    app,        \* the App's other state: loading, password and the Caesar controls
    hg,         \* the locals of the last handleGenerate run
    copy,       \* copied, copyTimeoutRef, the pending timeouts and the clock
    par         \* the frames of two fetchRandomWord calls in flight at once

vars == <<settings, apiIndex, apiIndex000, requests, starts, fw, gp, cz, app, hg, copy, par>>

fwIdle ==
    [pc |-> "idle", caller |-> "none", maxLength |-> 0, i |-> 0, api |-> 0,
     timer |-> FALSE, value |-> Undefined]

gpIdle ==
    [pc |-> "idle", length |-> 0,
     options |-> [lower |-> FALSE, upper |-> FALSE, numbers |-> FALSE,
                  symbols |-> FALSE, word |-> FALSE],
     wordCase |-> "lower", charSet |-> <<>>, word |-> Undefined,
     caseAdjustedWord |-> <<>>, randomChars |-> <<>>, insertPos |-> 0,
     password |-> <<>>]

czIdle == [pc |-> "idle", text |-> <<>>, shift |-> 0, cipher |-> <<>>, back |-> <<>>]

\* caesarVisual === null
NoVisual == [shown |-> FALSE, plain |-> <<>>, cipher |-> <<>>]

\* The App's state besides length, options and wordCase, after useState.
appInit ==
    [loading |-> FALSE, password |-> <<>>, caesar |-> FALSE,
     caesarInput |-> <<>>, caesarShift |-> 3, caesarVisual |-> NoVisual]

hgIdle ==
    [pc |-> "idle", base |-> <<>>, charSet |-> <<>>, extra |-> <<>>,
     insertPos |-> 0, pwd |-> <<>>]

\* useState(false) for copied, an empty copyTimeoutRef (0 stands for
\* undefined), no timeout pending, the clock at 0 and no copy made (-1 for
\* the time of the last copy and of the one before it).  A timeout is named
\* by the time it is due, which serves as its id.
copyInit ==
    [copied |-> FALSE, ref |-> 0, timers |-> {}, now |-> 0, last |-> -1, prev |-> -1]

\* The two fetchRandomWord calls that may run at once.
Callers == {"A", "B"}

\* Neither of the two calls has been made; asked lists the providers a call
\* has requested.
parIdle ==
    [c \in Callers |->
        [pc |-> "idle", maxLength |-> 0, i |-> 0, api |-> 0, timer |-> FALSE,
         value |-> Undefined, asked |-> <<>>]]

\* useState(16)
DefaultLength == 16

\* The App's initial length, options and wordCase.
defaultSettings ==
    [length |-> DefaultLength,
     options |-> [lower |-> TRUE, upper |-> TRUE, numbers |-> TRUE,
                  symbols |-> TRUE, word |-> FALSE],
     wordCase |-> "lower"]

\* The module is loaded and nothing has been called.
InitCalls ==
    /\ apiIndex = 0
    /\ apiIndex000 = 0
    /\ requests = <<>>
    /\ starts = <<>>
    /\ fw = fwIdle
    /\ gp = gpIdle
    /\ hg = hgIdle
    /\ copy = copyInit
    /\ par = parIdle

Init ==
    /\ settings = defaultSettings
    /\ InitCalls
    /\ cz = czIdle
    /\ app = appInit

\* The user has chosen any length, options and word case.
InitSettings ==
    /\ settings \in [length : Lengths, options : Options, wordCase : WordCases]
    /\ InitCalls
    /\ cz = czIdle
    /\ app = appInit

\* The scenario of a 10-character password made of a word alone, in each
\* word case.
InitScenario ==
    /\ settings \in [length : {10},
                      options : {[lower |-> FALSE, upper |-> FALSE, numbers |-> FALSE,
                                  symbols |-> FALSE, word |-> TRUE]},
                      wordCase : WordCases]
    /\ InitCalls
    /\ cz = czIdle
    /\ app = appInit

\* Settings with a word: alone, or with the digits around it.
InitCopies ==
    /\ settings \in [length : Lengths,
                      options : {o \in Options : o.word /\ ~o.lower /\ ~o.upper /\ ~o.symbols},
                      wordCase : WordCases]
    /\ InitCalls
    /\ cz = czIdle
    /\ app = appInit

\* A word alone, for every length the slider offers.
InitSweep ==
    /\ settings \in [length : MinLength..MaxSliderLength,
                      options : {[lower |-> FALSE, upper |-> FALSE, numbers |-> FALSE,
                                  symbols |-> FALSE, word |-> TRUE]},
                      wordCase : {"lower"}]
    /\ InitCalls
    /\ cz = czIdle
    /\ app = appInit

\* The App as it starts, for the shortest password of digits, of a word,
\* of both, or of nothing.
InitApp ==
    /\ settings \in [length : {MinLength},
                      options : {o \in Options : ~o.lower /\ ~o.upper /\ ~o.symbols},
                      wordCase : {"lower"}]
    /\ InitCalls
    /\ cz = czIdle
    /\ app = appInit

\* The App as it starts, for the shortest password of a word alone.
InitModes ==
    /\ settings = [length |-> MinLength,
                   options |-> [lower |-> FALSE, upper |-> FALSE, numbers |-> FALSE,
                                symbols |-> FALSE, word |-> TRUE],
                   wordCase |-> "lower"]
    /\ InitCalls
    /\ cz = czIdle
    /\ app = appInit

\* The App as it starts, for passwords of digits or of nothing.
InitPanel ==
    /\ settings \in [length : {MinLength},
                      options : {o \in Options : ~o.lower /\ ~o.upper /\ ~o.symbols /\ ~o.word},
                      wordCase : {"lower"}]
    /\ InitCalls
    /\ cz = czIdle
    /\ app = appInit

\* A phrase and a shift to encode.
InitCaesar ==
    /\ settings = defaultSettings
    /\ InitCalls
    /\ cz \in [pc : {"input"}, text : CaesarTexts, shift : Shifts,
               cipher : {<<>>}, back : {<<>>}]
    /\ app = appInit

\* The Caesar checkbox is set, a phrase and a shift are entered, and any
\* length and options are chosen.
InitCipher ==
    /\ settings \in [length : Lengths, options : Options, wordCase : {"lower"}]
    /\ InitCalls
    /\ cz = czIdle
    /\ app \in [loading : {FALSE}, password : {<<>>}, caesar : {TRUE},
                caesarInput : CipherPhrases, caesarShift : CipherShifts,
                caesarVisual : {NoVisual}]

(* --------------------------- fetchRandomWord -------------------------- *)

\* A slip: the provider after the one at the cursor.
selectApiNext(idx) == (idx + 1) % NumApis

\* WORD_APIS[apiIndex % WORD_APIS.length], as an index counted from 0.
selectApi(idx) == idx % NumApis

\* A slip: the cursor advanced twice per attempt.
advanceCursorTwice(idx) == idx + 2

\* apiIndex++
advanceCursor(idx) == idx + 1

\* A slip: one attempt more than there are providers.
attemptsOneMore == NumApis + 1

\* const attempts = WORD_APIS.length
attempts == NumApis

\* The cursor a call reads: the older copy is a module of its own, with its
\* own let apiIndex; every other caller is of the current file.
cursorOf(caller) == IF caller = "generatePassword000" THEN apiIndex000 ELSE apiIndex

\* A slip: the request to the next provider issued along with this one.
StartAttemptFanOut(maxLength, i, caller) ==
    /\ IF caller = "generatePassword000"
       THEN /\ apiIndex000' = advanceCursor(advanceCursor(apiIndex000))
            /\ UNCHANGED apiIndex
       ELSE /\ apiIndex' = advanceCursor(advanceCursor(apiIndex))
            /\ UNCHANGED apiIndex000
    /\ requests' = Append(Append(requests, selectApi(cursorOf(caller))),
                          selectApi(advanceCursor(cursorOf(caller))))
    /\ fw' = [pc |-> "awaitFetch", caller |-> caller, maxLength |-> maxLength,
              i |-> i, api |-> selectApi(cursorOf(caller)), timer |-> TRUE,
              value |-> Undefined]

\* One loop iteration up to its await: the provider is taken at the cursor
\* of the caller's module, that cursor advances, and fetchWithTimeout arms
\* the timeout and issues the request.
StartAttempt(maxLength, i, caller) ==
    /\ IF caller = "generatePassword000"
       THEN /\ apiIndex000' = advanceCursor(apiIndex000)
            /\ UNCHANGED apiIndex
       ELSE /\ apiIndex' = advanceCursor(apiIndex)
            /\ UNCHANGED apiIndex000
    /\ requests' = Append(requests, selectApi(cursorOf(caller)))
    /\ fw' = [pc |-> "awaitFetch", caller |-> caller, maxLength |-> maxLength,
              i |-> i, api |-> selectApi(cursorOf(caller)), timer |-> TRUE,
              value |-> Undefined]

\* return value: the promise of fetchRandomWord resolves.
Return(value) ==
    /\ fw' = [fw EXCEPT !.pc = "returned", !.timer = FALSE, !.value = value]
    /\ UNCHANGED <<apiIndex, apiIndex000, requests>>

\* A slip: break instead of continue, the first failure ends the loop.
LoopFromGiveUp(i) ==
    \E rs \in Tapes :
        /\ fw' = [fw EXCEPT !.pc = "returned", !.timer = FALSE, !.i = attempts,
                            !.value = Str(localFallbackFor(fw.caller, fw.maxLength, rs))]
        /\ UNCHANGED <<apiIndex, apiIndex000, requests>>

\* The loop head reached with counter i: the next attempt, or after the last
\* one (the loop left with i = attempts) the local fallback with its
\* Math.random() draws.
LoopFrom(i) ==
    IF i < attempts
    THEN StartAttempt(fw.maxLength, i, fw.caller)
    ELSE \E rs \in Tapes :
            /\ fw' = [fw EXCEPT !.pc = "returned", !.timer = FALSE, !.i = i,
                                !.value = Str(localFallbackFor(fw.caller, fw.maxLength, rs))]
            /\ UNCHANGED <<apiIndex, apiIndex000, requests>>

\* fetchRandomWord(maxLength) called: it runs to the await of its first attempt.
EnterFetchRandomWord(maxLength, caller) ==
    /\ starts' = Append(starts, Len(requests))
    /\ StartAttempt(maxLength, 0, caller)

\* A direct call of fetchRandomWord.
CallFetchRandomWord(maxLength) ==
    /\ fw.pc \in {"idle", "returned"}
    /\ gp.pc # "awaitWord"
    /\ Len(starts) < MaxCalls
    /\ EnterFetchRandomWord(maxLength, "direct")
    /\ UNCHANGED <<copy, par, app, hg, settings, gp, cz>>

\* fetch() rejects (network failure): fetchWithTimeout clears the timeout
\* and rethrows, the catch of fetchRandomWord logs, the loop goes on.
FetchRejects ==
    /\ fw.pc = "awaitFetch"
    /\ LoopFrom(fw.i + 1)
    /\ UNCHANGED <<copy, par, app, hg, settings, starts, gp, cz>>

\* The timeout of fetchWithTimeout fires while fetch() is pending:
\* controller.abort() rejects the fetch, and the attempt ends as FetchRejects.
TimeoutFires ==
    /\ fw.pc = "awaitFetch"
    /\ fw.timer
    /\ LoopFrom(fw.i + 1)
    /\ UNCHANGED <<copy, par, app, hg, settings, starts, gp, cz>>

\* fetch() resolves with a response (its status line and headers):
\* fetchWithTimeout clears the timeout and returns it; a status that is not
\* ok continues the loop, an ok one awaits response.json().
FetchResolves(ok) ==
    /\ fw.pc = "awaitFetch"
    /\ IF ok
       THEN /\ fw' = [fw EXCEPT !.pc = "awaitBody", !.timer = FALSE]
            /\ UNCHANGED <<apiIndex, apiIndex000, requests>>
       ELSE LoopFrom(fw.i + 1)
    /\ UNCHANGED <<copy, par, app, hg, settings, starts, gp, cz>>

\* response.json() rejects: the body is no JSON, or reading it failed.
BodyFails ==
    /\ fw.pc = "awaitBody"
    /\ LoopFrom(fw.i + 1)
    /\ UNCHANGED <<copy, par, app, hg, settings, starts, gp, cz>>

\* response.json() resolves with data: the parser extracts the word (a
\* throwing parser is caught), an accepted word is returned, anything else
\* goes on with the loop.  r is the Math.random() value of the parser.
BodyArrives(data, r) ==
    /\ fw.pc = "awaitBody"
    /\ LET word == parser(fw.api, data, r)
       IN  IF word.t # "throw" /\ WordAccepted(word, fw.maxLength)
           THEN Return(word)
           ELSE LoopFrom(fw.i + 1)
    /\ UNCHANGED <<copy, par, app, hg, settings, starts, gp, cz>>

ProviderStep ==
    \/ FetchRejects
    \/ TimeoutFires
    \/ \E ok \in BOOLEAN : FetchResolves(ok)
    \/ BodyFails
    \/ \E data \in Bodies, r \in Range(RandSamples) : BodyArrives(data, r)

(* ------------------ two fetchRandomWord calls at once ------------------ *)

\* The loop iteration of call c up to its await, on the shared cursor: the
\* read of apiIndex and apiIndex++ are two statements with no await between.
ParStartAttempt(c, maxLength, i) ==
    /\ apiIndex' = advanceCursor(apiIndex)
    /\ requests' = Append(requests, selectApi(apiIndex))
    /\ par' = [par EXCEPT ![c] =
                  [pc |-> "awaitFetch", maxLength |-> maxLength, i |-> i,
                   api |-> selectApi(apiIndex), timer |-> TRUE,
                   value |-> Undefined,
                   asked |-> Append(par[c].asked, selectApi(apiIndex))]]
    /\ UNCHANGED apiIndex000

\* The loop head of call c reached with counter i.
ParLoopFrom(c, i) ==
    IF i < attempts
    THEN ParStartAttempt(c, par[c].maxLength, i)
    ELSE \E rs \in Tapes :
            /\ par' = [par EXCEPT ![c].pc = "returned", ![c].timer = FALSE, ![c].i = i,
                                  ![c].value = Str(localFallback(par[c].maxLength, rs))]
            /\ UNCHANGED <<apiIndex, apiIndex000, requests>>

\* fetchRandomWord(maxLength) called while the other call may be waiting.
ParCall(c, maxLength) ==
    /\ par[c].pc = "idle"
    /\ ParStartAttempt(c, maxLength, 0)
    /\ UNCHANGED <<copy, app, hg, settings, starts, fw, gp, cz>>

ParFetchRejects(c) ==
    /\ par[c].pc = "awaitFetch"
    /\ ParLoopFrom(c, par[c].i + 1)
    /\ UNCHANGED <<copy, app, hg, settings, starts, fw, gp, cz>>

ParTimeoutFires(c) ==
    /\ par[c].pc = "awaitFetch"
    /\ par[c].timer
    /\ ParLoopFrom(c, par[c].i + 1)
    /\ UNCHANGED <<copy, app, hg, settings, starts, fw, gp, cz>>

ParFetchResolves(c, ok) ==
    /\ par[c].pc = "awaitFetch"
    /\ IF ok
       THEN /\ par' = [par EXCEPT ![c].pc = "awaitBody", ![c].timer = FALSE]
            /\ UNCHANGED <<apiIndex, apiIndex000, requests>>
       ELSE ParLoopFrom(c, par[c].i + 1)
    /\ UNCHANGED <<copy, app, hg, settings, starts, fw, gp, cz>>

ParBodyFails(c) ==
    /\ par[c].pc = "awaitBody"
    /\ ParLoopFrom(c, par[c].i + 1)
    /\ UNCHANGED <<copy, app, hg, settings, starts, fw, gp, cz>>

ParBodyArrives(c, data, r) ==
    /\ par[c].pc = "awaitBody"
    /\ LET word == parser(par[c].api, data, r)
       IN  IF word.t # "throw" /\ WordAccepted(word, par[c].maxLength)
           THEN /\ par' = [par EXCEPT ![c].pc = "returned", ![c].timer = FALSE,
                                      ![c].value = word]
                /\ UNCHANGED <<apiIndex, apiIndex000, requests>>
           ELSE ParLoopFrom(c, par[c].i + 1)
    /\ UNCHANGED <<copy, app, hg, settings, starts, fw, gp, cz>>

(* --------------------------- generatePassword ------------------------- *)

\* A slip: the early return taken whenever the character set is empty.
emptyConfigurationIgnoringWord(charSet, options) == charSet = <<>>

\* if (!charSet && !options.word) return "";
emptyConfiguration(charSet, options) == charSet = <<>> /\ ~options.word

\* applyWordCase(word, wordCase) on the value fetchRandomWord resolved to:
\* a value that is no string has no toLowerCase, toUpperCase or split, and
\* the call throws a TypeError.
applyWordCaseTo(value, wordCase, rs) ==
    IF value.t = "string" THEN Str(applyWordCase(value.s, wordCase, rs)) ELSE Thrown

\* generatePassword(length, options, wordCase) called: it returns at once
\* without a word, and otherwise awaits fetchRandomWord(Math.min(length, 8)).
EnterGeneratePassword(length, options, wordCase) ==
    /\ gp.pc \in {"idle", "done", "rejected"}
    /\ fw.pc \in {"idle", "returned"}
    /\ LET charSet == buildCharSet(options)
           frame == [gpIdle EXCEPT !.length = length, !.options = options,
                                   !.wordCase = wordCase, !.charSet = charSet]
       IN  IF emptyConfiguration(charSet, options)
           THEN /\ gp' = [frame EXCEPT !.pc = "done", !.password = <<>>]
                /\ UNCHANGED <<apiIndex, apiIndex000, requests, starts, fw>>
           ELSE IF options.word
           THEN /\ Len(starts) < MaxCalls
                /\ gp' = [frame EXCEPT !.pc = "awaitWord"]
                /\ EnterFetchRandomWord(Min(length, WordCap), "generatePassword")
           ELSE /\ \E rs \in Tapes :
                      gp' = [frame EXCEPT
                                !.pc = "done",
                                !.password = generateRandomChars(length, charSet, rs)]
                /\ UNCHANGED <<apiIndex, apiIndex000, requests, starts, fw>>

\* generatePassword called on its own, outside the App.
CallGeneratePassword(length, options, wordCase) ==
    /\ EnterGeneratePassword(length, options, wordCase)
    /\ UNCHANGED <<copy, par, app, hg, settings, cz>>

\* generatePassword resumes with the word fetchRandomWord resolved to.
ResumeGeneratePassword ==
    /\ gp.pc = "awaitWord"
    /\ fw.pc = "returned"
    /\ fw.caller = "generatePassword"
    /\ \E rs \in Tapes :
          IF applyWordCaseTo(fw.value, gp.wordCase, rs).t = "throw"
          THEN gp' = [gp EXCEPT !.pc = "rejected", !.word = fw.value]
          ELSE LET c == composeWithWord(gp.length, gp.charSet, gp.wordCase,
                                        fw.value.s, rs)
               IN  gp' = [gp EXCEPT !.pc = "done", !.word = fw.value,
                                    !.caseAdjustedWord = c.caseAdjustedWord,
                                    !.randomChars = c.randomChars,
                                    !.insertPos = c.insertPos,
                                    !.password = c.password]
    /\ fw' = fwIdle
    /\ UNCHANGED <<copy, par, app, hg, settings, apiIndex, apiIndex000, requests, starts, cz>>

\* generatePassword of the older copy called.
CallGeneratePassword000(length, options, wordCase) ==
    /\ gp.pc \in {"idle", "done", "rejected"}
    /\ fw.pc \in {"idle", "returned"}
    /\ LET charSet == buildCharSet(options)
           frame == [gpIdle EXCEPT !.length = length, !.options = options,
                                   !.wordCase = wordCase, !.charSet = charSet]
       IN  IF emptyConfiguration(charSet, options)
           THEN /\ gp' = [frame EXCEPT !.pc = "done", !.password = <<>>]
                /\ UNCHANGED <<apiIndex, apiIndex000, requests, starts, fw>>
           ELSE IF options.word
           THEN /\ Len(starts) < MaxCalls
                /\ gp' = [frame EXCEPT !.pc = "awaitWord"]
                /\ EnterFetchRandomWord(wordBound000(length, charSet),
                                        "generatePassword000")
           ELSE /\ \E rs \in Tapes :
                      gp' = [frame EXCEPT
                                !.pc = "done",
                                !.password = generateRandomChars(length, charSet, rs)]
                /\ UNCHANGED <<apiIndex, apiIndex000, requests, starts, fw>>
    /\ UNCHANGED <<copy, par, app, hg, settings, cz>>

\* generatePassword of the older copy resumes with the resolved word.
ResumeGeneratePassword000 ==
    /\ gp.pc = "awaitWord"
    /\ fw.pc = "returned"
    /\ fw.caller = "generatePassword000"
    /\ \E rs \in Tapes :
          IF applyWordCaseTo(fw.value, gp.wordCase, rs).t = "throw"
          THEN gp' = [gp EXCEPT !.pc = "rejected", !.word = fw.value]
          ELSE LET c == composeWithWord000(gp.length, gp.charSet, gp.wordCase,
                                           fw.value.s, rs)
               IN  gp' = [gp EXCEPT !.pc = "done", !.word = fw.value,
                                    !.caseAdjustedWord = c.caseAdjustedWord,
                                    !.randomChars = c.randomChars,
                                    !.insertPos = c.insertPos,
                                    !.password = c.password]
    /\ fw' = fwIdle
    /\ UNCHANGED <<copy, par, app, hg, settings, apiIndex, apiIndex000, requests, starts, cz>>

(* ------------------------------ caesarCipher -------------------------- *)

\* caesarCipher(text, shift) evaluated.
CaesarEncode ==
    /\ cz.pc = "input"
    /\ cz' = [cz EXCEPT !.pc = "encoded", !.cipher = caesarCipher(cz.text, cz.shift)]
    /\ UNCHANGED <<copy, par, app, hg, settings, apiIndex, apiIndex000, requests, starts, fw, gp>>

\* The cipher text decoded: caesarCipher(cipher, 26 - shift).
CaesarDecode ==
    /\ cz.pc = "encoded"
    /\ cz' = [cz EXCEPT !.pc = "decoded",
                        !.back = caesarCipher(cz.cipher, AlphabetSize - cz.shift)]
    /\ UNCHANGED <<copy, par, app, hg, settings, apiIndex, apiIndex000, requests, starts, fw, gp>>

(* ------------------------ handleGenerate, cipher mode ----------------- *)

\* A slip: the digits appended before the capitals.
buildCipherCharSetSwapped(options) ==
       (IF options.lower THEN lower ELSE <<>>)
    \o (IF options.numbers THEN numbers ELSE <<>>)
    \o (IF options.upper THEN upper ELSE <<>>)
    \o (IF options.symbols THEN symbols ELSE <<>>)

\* The character set handleGenerate builds in its caesar branch.
buildCipherCharSet(options) ==
       (IF options.lower THEN lower ELSE <<>>)
    \o (IF options.upper THEN upper ELSE <<>>)
    \o (IF options.numbers THEN numbers ELSE <<>>)
    \o (IF options.symbols THEN symbols ELSE <<>>)

\* Array.from({length: n}, () => charSet.charAt(Math.floor(Math.random() *
\* charSet.length))).join("")
cipherExtra(n, charSet, rs) ==
    Flatten([k \in 1..n |-> CharAt(charSet, FloorRandom(rs[k], Len(charSet)))])

\* A slip: the cipher text stored without slice(0, length).
cipherPasswordUncut(caesarInput, caesarShift, length, options, rs) ==
    LET base == caesarCipher(caesarInput, caesarShift)
        charSet == buildCipherCharSet(options)
    IN  IF charSet # <<>> /\ Len(base) < length
        THEN LET extra == cipherExtra(length - Len(base), charSet, rs)
                 insertPos == FloorRandom(rs[length - Len(base) + 1], Len(extra) + 1)
             IN  [pc |-> "done", base |-> base, charSet |-> charSet,
                  extra |-> extra, insertPos |-> insertPos,
                  pwd |-> Slice(extra, 0, insertPos) \o base \o SliceFrom(extra, insertPos)]
        ELSE [pc |-> "done", base |-> base, charSet |-> charSet,
              extra |-> <<>>, insertPos |-> 0,
              pwd |-> base]

\* The caesar branch of handleGenerate: its locals for the phrase, shift,
\* length and options of the render it was created in.
cipherPassword(caesarInput, caesarShift, length, options, rs) ==
    LET base == caesarCipher(caesarInput, caesarShift)
        charSet == buildCipherCharSet(options)
    IN  IF charSet # <<>> /\ Len(base) < length
        THEN LET extra == cipherExtra(length - Len(base), charSet, rs)
                 insertPos == FloorRandom(rs[length - Len(base) + 1], Len(extra) + 1)
             IN  [pc |-> "done", base |-> base, charSet |-> charSet,
                  extra |-> extra, insertPos |-> insertPos,
                  pwd |-> Slice(extra, 0, insertPos) \o base \o SliceFrom(extra, insertPos)]
        ELSE [pc |-> "done", base |-> base, charSet |-> charSet,
              extra |-> <<>>, insertPos |-> 0,
              pwd |-> Slice(base, 0, length)]

\* A slip: the cipher branch asking a provider when the word flag is set.
HandleGenerateCaesarAsking ==
    /\ app.caesar
    /\ ~app.loading
    /\ \E rs \in Tapes :
          LET run == cipherPassword(app.caesarInput, app.caesarShift,
                                    settings.length, settings.options, rs)
          IN  /\ hg' = run
              /\ app' = [app EXCEPT
                            !.loading = FALSE,
                            !.caesarVisual = [shown |-> TRUE,
                                              plain |-> app.caesarInput,
                                              cipher |-> run.base],
                            !.password = run.pwd]
    /\ IF settings.options.word
       THEN /\ apiIndex' = advanceCursor(apiIndex)
            /\ requests' = Append(requests, selectApi(apiIndex))
            /\ UNCHANGED apiIndex000
       ELSE UNCHANGED <<apiIndex, apiIndex000, requests>>
    /\ UNCHANGED <<copy, par, settings, starts, fw, gp, cz>>

\* Generate pressed with the Caesar checkbox set: handleGenerate runs to its
\* end without awaiting; loading is set and cleared, the panel gets the
\* phrase and its cipher text, and the password is stored.
HandleGenerateCaesar ==
    /\ app.caesar
    /\ ~app.loading
    /\ \E rs \in Tapes :
          LET run == cipherPassword(app.caesarInput, app.caesarShift,
                                    settings.length, settings.options, rs)
          IN  /\ hg' = run
              /\ app' = [app EXCEPT
                            !.loading = FALSE,
                            !.caesarVisual = [shown |-> TRUE,
                                              plain |-> app.caesarInput,
                                              cipher |-> run.base],
                            !.password = run.pwd]
    /\ UNCHANGED <<copy, par, settings, apiIndex, apiIndex000, requests, starts, fw, gp, cz>>

\* Generate pressed without the Caesar checkbox: handleGenerate sets
\* loading, clears the panel and awaits generatePassword(length, options,
\* wordCase), which runs to its first await or to its return.
HandleGeneratePassword ==
    /\ ~app.caesar
    /\ ~app.loading
    /\ Len(starts) < MaxAppRuns
    /\ EnterGeneratePassword(settings.length, settings.options, settings.wordCase)
    /\ app' = [app EXCEPT !.loading = TRUE, !.caesarVisual = NoVisual]
    /\ hg' = [hgIdle EXCEPT !.pc = "awaitPassword"]
    /\ UNCHANGED <<copy, par, settings, cz>>

\* generatePassword has resolved: handleGenerate stores the password and
\* clears loading.
HandleGenerateResumes ==
    /\ hg.pc = "awaitPassword"
    /\ gp.pc = "done"
    /\ app' = [app EXCEPT !.password = gp.password, !.loading = FALSE]
    /\ hg' = [hg EXCEPT !.pc = "done", !.pwd = gp.password]
    /\ UNCHANGED <<copy, par, settings, apiIndex, apiIndex000, requests, starts, fw, gp, cz>>

\* generatePassword has rejected: the await in handleGenerate throws, there
\* is no try around it, and setPassword and setLoading(false) are not reached.
HandleGenerateRejects ==
    /\ hg.pc = "awaitPassword"
    /\ gp.pc = "rejected"
    /\ hg' = [hg EXCEPT !.pc = "rejected"]
    /\ UNCHANGED <<copy, par, app, settings, apiIndex, apiIndex000, requests, starts, fw, gp, cz>>

\* The Generate button, which is disabled while loading.
HandleGenerate ==
    \/ HandleGenerateCaesar
    \/ HandleGeneratePassword

\* The Caesar checkbox: the flag flips; switching it on also empties the
\* phrase and hides the panel.
ToggleCaesar ==
    /\ app' = [app EXCEPT
                  !.caesar = ~app.caesar,
                  !.caesarInput = IF ~app.caesar THEN <<>> ELSE @,
                  !.caesarVisual = IF ~app.caesar THEN NoVisual ELSE @]
    /\ UNCHANGED <<copy, par, hg, settings, apiIndex, apiIndex000, requests, starts, fw, gp, cz>>

\* The phrase field, shown with the Caesar checkbox set: setCaesarInput.
EditPhrase(text) ==
    /\ app.caesar
    /\ text # app.caesarInput
    /\ app' = [app EXCEPT !.caesarInput = text]
    /\ UNCHANGED <<copy, par, hg, settings, apiIndex, apiIndex000, requests, starts, fw, gp, cz>>

\* The shift slider, shown with the Caesar checkbox set: setCaesarShift.
SetShift(shift) ==
    /\ app.caesar
    /\ shift # app.caesarShift
    /\ app' = [app EXCEPT !.caesarShift = shift]
    /\ UNCHANGED <<copy, par, hg, settings, apiIndex, apiIndex000, requests, starts, fw, gp, cz>>

\* An option checkbox: toggleOption(key) flips the flag.  The word checkbox
\* is disabled while the Caesar checkbox is set.
ToggleOption(key) ==
    /\ ~(app.caesar /\ key = "word")
    /\ settings' = [settings EXCEPT !.options[key] = ~@]
    /\ UNCHANGED <<copy, par, app, hg, apiIndex, apiIndex000, requests, starts, fw, gp, cz>>

\* The length slider moved to another value: setLength.
SetLength(length) ==
    /\ length # settings.length
    /\ settings' = [settings EXCEPT !.length = length]
    /\ UNCHANGED <<copy, par, app, hg, apiIndex, apiIndex000, requests, starts, fw, gp, cz>>

\* A word-case radio, shown with the word option set: setWordCase.
SetWordCase(wc) ==
    /\ settings.options.word
    /\ wc # settings.wordCase
    /\ settings' = [settings EXCEPT !.wordCase = wc]
    /\ UNCHANGED <<copy, par, app, hg, apiIndex, apiIndex000, requests, starts, fw, gp, cz>>

\* The checkboxes, slider positions and radios the user works.
AppKeys == {"numbers", "word"}

AppLengths == {MinLength, MinLength + 1}

AppWordCases == {"lower", "upper"}

\* The settings controls of the App.
ChangeSettings ==
    \/ \E key \in AppKeys : ToggleOption(key)
    \/ \E length \in AppLengths : SetLength(length)
    \/ \E wc \in AppWordCases : SetWordCase(wc)

\* The settings controls with the class checkboxes left alone.
ChangeWordSettings ==
    \/ ToggleOption("word")
    \/ \E length \in AppLengths : SetLength(length)
    \/ \E wc \in AppWordCases : SetWordCase(wc)

\* The settings controls with the word checkbox left alone; the word-case
\* radios are not shown then.
ChangeClassSettings ==
    \/ ToggleOption("numbers")
    \/ \E length \in AppLengths : SetLength(length)

\* The time passes between events, in steps of ClockSteps milliseconds.
ClockSteps == {1000, 2000}

\* A slip: the pending timeout left in place when Copy is pressed again.
HandleCopyKeepingTimer ==
    /\ IF app.password = <<>>
       THEN UNCHANGED copy
       ELSE copy' = [copy EXCEPT
                        !.copied = TRUE,
                        !.timers = copy.timers \cup {copy.now + CopyResetMs},
                        !.ref = copy.now + CopyResetMs,
                        !.prev = copy.last,
                        !.last = copy.now]
    /\ UNCHANGED <<par, app, hg, settings, apiIndex, apiIndex000, requests, starts, fw, gp, cz>>

\* handleCopy: nothing without a password; else copied is set, the timeout
\* the ref holds is cleared (clearing one that has fired does nothing) and a
\* new one is set and stored in the ref.
HandleCopy ==
    /\ IF app.password = <<>>
       THEN UNCHANGED copy
       ELSE copy' = [copy EXCEPT
                        !.copied = TRUE,
                        !.timers = (IF copy.ref # 0 THEN copy.timers \ {copy.ref}
                                    ELSE copy.timers)
                                   \cup {copy.now + CopyResetMs},
                        !.ref = copy.now + CopyResetMs,
                        !.prev = copy.last,
                        !.last = copy.now]
    /\ UNCHANGED <<par, app, hg, settings, apiIndex, apiIndex000, requests, starts, fw, gp, cz>>

\* A timeout of handleCopy is due and runs: setCopied(false).
CopyTimerFires(t) ==
    /\ t \in copy.timers
    /\ t <= copy.now
    /\ copy' = [copy EXCEPT !.copied = FALSE, !.timers = copy.timers \ {t}]
    /\ UNCHANGED <<par, app, hg, settings, apiIndex, apiIndex000, requests, starts, fw, gp, cz>>

\* d milliseconds pass; a timeout runs when it is due, before more time passes.
Tick(d) ==
    /\ copy.now + d <= MaxClock
    /\ \A t \in copy.timers : copy.now + d <= t
    /\ copy' = [copy EXCEPT !.now = copy.now + d]
    /\ UNCHANGED <<par, app, hg, settings, apiIndex, apiIndex000, requests, starts, fw, gp, cz>>

(* ---------------------------- specifications -------------------------- *)

\* generatePassword called with the chosen settings, one call after the
\* other, against any provider behaviour.
Next ==
    \/ CallGeneratePassword(settings.length, settings.options, settings.wordCase)
    \/ ProviderStep
    \/ ResumeGeneratePassword

Spec == InitSettings /\ [][Next]_vars

\* generatePassword in the 10-character word scenario, and direct
\* fetchRandomWord calls for short words.
NextScenario ==
    \/ Next
    \/ \E maxLength \in 1..MaxWordLength : CallFetchRandomWord(maxLength)

SpecScenario == InitScenario /\ [][NextScenario]_vars

\* generatePassword for a word alone over the whole range of the slider.
SpecSweep == InitSweep /\ [][Next]_vars

\* The two copies of generatePassword, called with the same settings.
NextCopies ==
    \/ Next
    \/ CallGeneratePassword000(settings.length, settings.options, settings.wordCase)
    \/ ResumeGeneratePassword000

SpecCopies == InitCopies /\ [][NextCopies]_vars

\* Two fetchRandomWord calls whose awaits interleave.
NextPair ==
    \E c \in Callers :
        \/ ParCall(c, MaxWordLength)
        \/ ParFetchRejects(c)
        \/ ParTimeoutFires(c)
        \/ \E ok \in BOOLEAN : ParFetchResolves(c, ok)
        \/ ParBodyFails(c)
        \/ \E data \in Bodies, r \in Range(RandSamples) : ParBodyArrives(c, data, r)

SpecPair == Init /\ [][NextPair]_vars

\* The App with the Caesar checkbox left alone: Generate and the settings
\* controls, against any provider behaviour.
NextApp ==
    \/ HandleGeneratePassword
    \/ HandleGenerateResumes
    \/ HandleGenerateRejects
    \/ ProviderStep
    \/ ResumeGeneratePassword
    \/ ChangeSettings

SpecApp == InitApp /\ [][NextApp]_vars

\* The App in both modes: Generate, the Caesar checkbox, the phrase field
\* and the settings controls of a password made of a word alone, against
\* any provider behaviour.
NextModes ==
    \/ HandleGenerate
    \/ HandleGenerateResumes
    \/ HandleGenerateRejects
    \/ ProviderStep
    \/ ResumeGeneratePassword
    \/ ToggleCaesar
    \/ EditPhrase(<<97, 90>>)
    \/ ChangeWordSettings

SpecModes == InitModes /\ [][NextModes]_vars

\* The event loop runs a timer that is due and a continuation whose promise
\* has settled; the providers carry no fairness.
FairSpecApp ==
    /\ SpecApp
    /\ WF_vars(TimeoutFires)
    /\ WF_vars(ResumeGeneratePassword)
    /\ WF_vars(HandleGenerateResumes)
    /\ WF_vars(HandleGenerateRejects)

\* The Caesar controls: Generate without a word, the checkbox, the phrase
\* field and the shift slider.
NextPanel ==
    \/ HandleGenerate
    \/ HandleGenerateResumes
    \/ ToggleCaesar
    \/ \E text \in {<<>>, <<97, 90>>} : EditPhrase(text)
    \/ \E shift \in CipherShifts : SetShift(shift)
    \/ ChangeClassSettings

SpecPanel == InitPanel /\ [][NextPanel]_vars

\* The Copy button and its timeout, with passwords of digits or of nothing
\* generated in between.
NextCopy ==
    \/ HandleGeneratePassword
    \/ HandleGenerateResumes
    \/ HandleCopy
    \/ \E t \in 0..MaxClock : CopyTimerFires(t)
    \/ \E d \in ClockSteps : Tick(d)
    \/ ChangeClassSettings

SpecCopy == InitPanel /\ [][NextCopy]_vars

\* Direct fetchRandomWord calls, one after the other.
NextFetch ==
    \/ \E maxLength \in 1..MaxWordLength : CallFetchRandomWord(maxLength)
    \/ ProviderStep

SpecFetch == Init /\ [][NextFetch]_vars

\* The event loop runs a timer that is due; what the providers do is not
\* under the program's control and carries no fairness.
FairSpecFetch == SpecFetch /\ WF_vars(TimeoutFires)

\* caesarCipher applied to phrases and shifts, and decoded again.
NextCaesar ==
    \/ CaesarEncode
    \/ CaesarDecode

SpecCaesar == InitCaesar /\ [][NextCaesar]_vars

\* Generate pressed in cipher mode, again and again.
NextCipher == HandleGenerateCaesar

SpecCipher == InitCipher /\ [][NextCipher]_vars

(* ------------------------------- claims ------------------------------- *)

\* The characters of the character classes a set of flags enables.
EnabledAlphabet(options) ==
         (IF options.lower THEN 97..122 ELSE {})
    \cup (IF options.upper THEN 65..90 ELSE {})
    \cup (IF options.numbers THEN 48..57 ELSE {})
    \cup (IF options.symbols THEN Range(symbols) ELSE {})

NoClassFlag(options) ==
    ~options.lower /\ ~options.upper /\ ~options.numbers /\ ~options.symbols

\* w occurs in p as a contiguous substring.
IsSubstring(w, p) ==
    \E k \in 0..(Len(p) - Len(w)) : SubSeq(p, k + 1, k + Len(w)) = w

\* C1: with word disabled and at least one character class enabled,
\* generatePassword returns exactly `length` characters, each of them in the
\* union of the enabled alphabets.
C1_RandomPasswordLengthAndAlphabet ==
    (gp.pc = "done" /\ ~gp.options.word /\ ~NoClassFlag(gp.options))
        => /\ Len(gp.password) = gp.length
           /\ Range(gp.password) \subseteq EnabledAlphabet(gp.options)

\* A 5-character password of digits only, with both the first and the last
\* digit of the alphabet in it, has been returned.
C1_Witness ==
    /\ gp.pc = "done"
    /\ ~gp.options.word
    /\ gp.options.numbers /\ ~gp.options.lower /\ ~gp.options.upper
    /\ ~gp.options.symbols
    /\ gp.length = 5
    /\ Len(gp.password) = 5
    /\ {48, 57} \subseteq Range(gp.password)

\* C2: in word mode the password returned never has more than `length`
\* characters; it holds the case-adjusted word as a contiguous substring when
\* that word is shorter than `length`, and is the case-adjusted word cut to
\* exactly `length` characters otherwise.  The case-adjusted word is the
\* resolved word in lower case, in upper case, or with each character in
\* either case, as wordCase says.
C2_WordEmbeddedOrTruncated ==
    (gp.pc = "done" /\ gp.options.word)
        => /\ Len(gp.password) <= gp.length
           /\ gp.wordCase = "lower" => gp.caseAdjustedWord = toLowerCase(gp.word.s)
           /\ gp.wordCase = "upper" => gp.caseAdjustedWord = toUpperCase(gp.word.s)
           /\ gp.wordCase = "random" =>
                 \E rs \in Tapes : gp.caseAdjustedWord = randomizeCase(gp.word.s, rs)
           /\ IF Len(gp.caseAdjustedWord) < gp.length
              THEN IsSubstring(gp.caseAdjustedWord, gp.password)
              ELSE /\ gp.password = SubSeq(gp.caseAdjustedWord, 1, gp.length)
                   /\ Len(gp.password) = gp.length

\* The word "ßabc" came from a provider, became "SSABC" in upper case and
\* was cut to the 4 characters asked for.
C2_Witness ==
    /\ gp.pc = "done"
    /\ gp.options.word
    /\ gp.length = 4
    /\ gp.word = Str(<<223, 97, 98, 99>>)
    /\ gp.caseAdjustedWord = <<83, 83, 65, 66, 67>>
    /\ gp.password = <<83, 83, 65, 66>>

\* C3: fetchRandomWord always resolves to a string of at most maxLength
\* characters, whatever the providers deliver.
C3_FetchReturnsBoundedString ==
    fw.pc = "returned"
        => (fw.value.t = "string" /\ Len(fw.value.s) <= fw.maxLength)

\* C4: generatePassword never rejects.
C4_GenerateNeverRejects == gp.pc # "rejected"

\* C5: every fetchRandomWord call eventually returns, whatever the providers
\* do.
C5_FetchEventuallyReturns ==
    (fw.pc \in {"awaitFetch", "awaitBody"}) ~> (fw.pc = "returned")

\* The provider first requested by the k-th fetchRandomWord call.
FirstProvider(k) == requests[starts[k] + 1]

\* The number of requests the k-th call issued, for a call that is over.
AttemptsOf(k) == starts[k + 1] - starts[k]

\* C6 (as stated): the provider first attempted by a call differs from the
\* provider first attempted by the call before it.
C6_ConsecutiveStartsDiffer ==
    \A k \in 1..(Len(starts) - 1) : FirstProvider(k + 1) # FirstProvider(k)

\* C6 (amended): the provider first attempted by a call is the one
\* (attempts of the call before) places after that call's first provider,
\* modulo 4; so it differs from it exactly when the call before made fewer
\* than 4 attempts, and is the same provider when it made all 4.
C6_NextStartFollowsAttempts ==
    \A k \in 1..(Len(starts) - 1) :
        /\ AttemptsOf(k) \in 1..4
        /\ FirstProvider(k + 1) = (FirstProvider(k) + AttemptsOf(k)) % 4
        /\ (FirstProvider(k + 1) # FirstProvider(k)) <=> (AttemptsOf(k) < 4)

\* The first call made all 4 attempts and the second call starts at the
\* provider the first call started at.
C6_Witness ==
    /\ Len(starts) = 2
    /\ AttemptsOf(1) = 4
    /\ FirstProvider(2) = FirstProvider(1)

\* C7: the cursor equals the number of attempts made so far (it grows by one
\* per attempt and is never reset), the first provider attempted by a call
\* has index (attempts made by all earlier calls) mod 4, and the j-th
\* further attempt of the call goes to index (that start + j) mod 4.
C7_RoundRobinByCumulativeAttempts ==
    /\ apiIndex = Len(requests)
    /\ \A k \in 1..Len(starts) :
          LET last == IF k < Len(starts) THEN starts[k + 1] ELSE Len(requests)
          IN  \A n \in (starts[k] + 1)..last :
                 requests[n] = ((starts[k] % 4) + (n - starts[k] - 1)) % 4

\* The second call started after 3 attempts, at provider 3, and its second
\* attempt went to provider 0.
C7_Witness ==
    /\ Len(starts) = 2
    /\ starts[2] = 3
    /\ Len(requests) = 5
    /\ requests[4] = 3
    /\ requests[5] = 0
    /\ apiIndex = 5

\* C8: decoding with shift 26 - shift gives the text back, and caesarCipher
\* leaves every character that is no ASCII letter where and what it is.
C8_CaesarRoundTrip ==
    /\ cz.pc = "decoded" => cz.back = cz.text
    /\ cz.pc \in {"encoded", "decoded"} =>
          /\ Len(cz.cipher) = Len(cz.text)
          /\ \A k \in 1..Len(cz.text) :
                cz.text[k] \notin ((97..122) \cup (65..90))
                    => cz.cipher[k] = cz.text[k]

\* "z{" was encoded with shift 25 to "y{" and decoded to "z{" again.
C8_Witness ==
    /\ cz.pc = "decoded"
    /\ cz.text = <<122, 123>>
    /\ cz.shift = 25
    /\ cz.cipher = <<121, 123>>
    /\ cz.back = <<122, 123>>

\* "Dwwdfn Dw Gdzq"
DwwdfnDwGdzq == <<68, 119, 119, 100, 102, 110, 32, 68, 119, 32, 71, 100, 122, 113>>

\* C9: caesarCipher keeps the length, maps each ASCII letter to the letter
\* `shift` places later in the alphabet of its own case, wrapping modulo 26,
\* and leaves every other character unchanged; "Attack At Dawn" with shift 3
\* gives "Dwwdfn Dw Gdzq".
C9_CaesarShiftsLetters ==
    cz.pc \in {"encoded", "decoded"} =>
        /\ Len(cz.cipher) = Len(cz.text)
        /\ \A k \in 1..Len(cz.text) :
              LET c == cz.text[k]
              IN  IF c \in 97..122
                  THEN cz.cipher[k] = 97 + ((c - 97 + cz.shift) % 26)
                  ELSE IF c \in 65..90
                  THEN cz.cipher[k] = 65 + ((c - 65 + cz.shift) % 26)
                  ELSE cz.cipher[k] = c
        /\ (cz.text = <<122, 90>> /\ cz.shift = 1) => cz.cipher = <<97, 65>>
        /\ (cz.text = AttackAtDawn /\ cz.shift = 3) => cz.cipher = DwwdfnDwGdzq

\* "Attack At Dawn" was encoded with shift 3.
C9_Witness ==
    /\ cz.pc = "encoded"
    /\ cz.text = AttackAtDawn
    /\ cz.shift = 3
    /\ cz.cipher = DwwdfnDwGdzq

\* C10: a password generatePassword returns is empty exactly when no
\* character class is set and word is disabled; with that configuration the
\* call returns "" at once, issuing no provider request and leaving the
\* cursor and the word source alone.
C10_EmptyExactlyWithoutClassesAndWord ==
    /\ [](gp.pc = "done" =>
            ((gp.password = <<>>)
                <=> (NoClassFlag(gp.options) /\ ~gp.options.word)))
    /\ [][(gp' # gp /\ NoClassFlag(gp'.options) /\ ~gp'.options.word)
            => /\ gp'.pc = "done"
               /\ gp'.password = <<>>
               /\ requests' = requests
               /\ apiIndex' = apiIndex
               /\ fw' = fw]_vars

\* generatePassword returned "" for a configuration without classes and
\* word, and no request has been issued.
C10_Witness ==
    /\ gp.pc = "done"
    /\ NoClassFlag(gp.options)
    /\ ~gp.options.word
    /\ gp.length = 4
    /\ gp.password = <<>>
    /\ requests = <<>>

\* The alphabets of the flags that are set, in the order lower, upper,
\* numbers, symbols, written out by their code units.
ExpectedCharSet(options) ==
       (IF options.lower THEN [k \in 1..26 |-> 96 + k] ELSE <<>>)
    \o (IF options.upper THEN [k \in 1..26 |-> 64 + k] ELSE <<>>)
    \o (IF options.numbers THEN [k \in 1..10 |-> 47 + k] ELSE <<>>)
    \o (IF options.symbols THEN symbols ELSE <<>>)

\* 1 for a flag that is set, 0 otherwise.
Flag(b) == IF b THEN 1 ELSE 0

\* C11: the character set is the concatenation of the alphabets of the
\* enabled flags in the order lower, upper, numbers, symbols, of sizes 26,
\* 26, 10 and 30; its length is the sum of the enabled sizes (92 for all
\* four), it is non-empty exactly when a flag is set, and the builder of
\* handleGenerate's cipher branch gives the set generatePassword builds.
C11_CharSetIsOrderedConcatenation ==
    hg.pc = "done" =>
        LET o == settings.options
        IN  /\ Len(symbols) = 30
            /\ hg.charSet = ExpectedCharSet(o)
            /\ buildCharSet(o) = ExpectedCharSet(o)
            /\ hg.charSet = buildCharSet(o)
            /\ Len(hg.charSet) = 26 * Flag(o.lower) + 26 * Flag(o.upper)
                                   + 10 * Flag(o.numbers) + 30 * Flag(o.symbols)
            /\ (o.lower /\ o.upper /\ o.numbers /\ o.symbols) => Len(hg.charSet) = 92
            /\ (hg.charSet # <<>>) <=> ~NoClassFlag(o)

\* The cipher branch has built the set of all four classes: 92 characters,
\* "a" first, "A" at 27, "0" at 53, "!" at 63 and "\" last.
C11_Witness ==
    /\ hg.pc = "done"
    /\ settings.options.lower /\ settings.options.upper
    /\ settings.options.numbers /\ settings.options.symbols
    /\ Len(hg.charSet) = 92
    /\ hg.charSet[1] = 97 /\ hg.charSet[27] = 65 /\ hg.charSet[53] = 48
    /\ hg.charSet[63] = 33 /\ hg.charSet[92] = 92

\* C12: in cipher mode, with c the Caesar encoding of the phrase: if the
\* character set is non-empty and c is shorter than `length`, the password
\* is c spliced at some offset p in [0, length - |c|] into length - |c|
\* characters of the character set; otherwise it is c cut to `length`.  So
\* it has `length` characters when the set is non-empty, min(|c|, length)
\* when it is empty, and is empty exactly when the set and the phrase are.
C12_CipherModePassword ==
    hg.pc = "done" =>
        LET c == caesarCipher(app.caesarInput, app.caesarShift)
            cs == ExpectedCharSet(settings.options)
            length == settings.length
            pw == app.password
        IN  /\ hg.base = c
            /\ IF cs # <<>> /\ Len(c) < length
               THEN /\ Len(pw) = length
                    /\ Len(hg.extra) = length - Len(c)
                    /\ Range(hg.extra) \subseteq Range(cs)
                    /\ hg.insertPos \in 0..Len(hg.extra)
                    /\ pw = SubSeq(hg.extra, 1, hg.insertPos) \o c
                              \o SubSeq(hg.extra, hg.insertPos + 1, Len(hg.extra))
               ELSE pw = SubSeq(c, 1, Min(Len(c), length))
            /\ cs # <<>> => Len(pw) = length
            /\ cs = <<>> => Len(pw) = Min(Len(c), length)
            /\ (pw = <<>>) <=> (cs = <<>> /\ app.caesarInput = <<>>)

\* "aZ" with shift 3 became "dC" and sits strictly inside 4 digits.
C12_Witness ==
    /\ hg.pc = "done"
    /\ app.caesarInput = <<97, 90>>
    /\ app.caesarShift = 3
    /\ settings.length = 6
    /\ settings.options.numbers /\ ~settings.options.lower
    /\ ~settings.options.upper /\ ~settings.options.symbols
    /\ hg.insertPos \in 1..3
    /\ SubSeq(app.password, hg.insertPos + 1, hg.insertPos + 2) = <<100, 67>>
    /\ Len(app.password) = 6

\* The requests the call in progress (or the last call made) has issued.
RequestsOfCall == Len(requests) - starts[Len(starts)]

\* v is a word of 1..n characters.
InBoundWord(v, n) == v.t = "string" /\ Len(v.s) \in 1..n

\* C13: a provider attempt that yields a word of at most maxLength
\* characters makes fetchRandomWord return exactly that word at once; the
\* call has then issued one request per attempt and no more, the cursor has
\* advanced by that number of attempts, and the next request made at all is
\* the first of a new call and goes to the provider after the one that
\* succeeded.
C13_ShortCircuit ==
    /\ [](fw.pc = "returned" /\ fw.i < NumApis =>
            /\ \E data \in Bodies, r \in Range(RandSamples) :
                   fw.value = parser(fw.api, data, r)
            /\ fw.value.t = "string" => InBoundWord(fw.value, fw.maxLength)
            /\ RequestsOfCall = fw.i + 1
            /\ requests[Len(requests)] = fw.api
            /\ apiIndex = starts[Len(starts)] + fw.i + 1)
    /\ [][\A data \in Bodies, r \in Range(RandSamples) :
            (/\ fw.pc = "awaitBody"
             /\ InBoundWord(parser(fw.api, data, r), fw.maxLength)
             /\ BodyArrives(data, r))
            => /\ fw'.pc = "returned"
               /\ fw'.value = parser(fw.api, data, r)
               /\ fw'.i = fw.i
               /\ requests' = requests
               /\ apiIndex' = apiIndex]_vars
    /\ [][(fw.pc = "returned" /\ fw.i < NumApis /\ requests' # requests)
            => /\ Len(starts') = Len(starts) + 1
               /\ requests' = Append(requests, (fw.api + 1) % NumApis)]_vars

\* The first call returned "aZ" from its third attempt (provider 2) and the
\* second call has started at provider 3.
C13_Witness ==
    /\ Len(starts) = 2
    /\ starts[2] = 3
    /\ requests = <<0, 1, 2, 3>>
    /\ fw.pc = "awaitFetch"
    /\ fw.api = 3

\* C14: a call issues at most 4 provider requests and none of them to a
\* provider it has already requested; a call that ended in the local
\* fallback has requested each of the four providers exactly once.
C14_EachProviderAtMostOncePerCall ==
    /\ \A k \in 1..Len(starts) :
          LET last == IF k < Len(starts) THEN starts[k + 1] ELSE Len(requests)
          IN  /\ last - starts[k] \in 1..4
              /\ \A m, n \in (starts[k] + 1)..last :
                     m # n => requests[m] # requests[n]
    /\ (fw.pc = "returned" /\ fw.i >= NumApis) =>
          /\ RequestsOfCall = 4
          /\ {requests[n] : n \in (starts[Len(starts)] + 1)..Len(requests)} = 0..3

\* Every attempt of the first call failed, at providers 0, 1, 2, 3, and the
\* second call has requested provider 0 and provider 1 again.
C14_Witness ==
    /\ Len(starts) = 2
    /\ requests = <<0, 1, 2, 3, 0, 1>>
    /\ starts[2] = 4

\* C15: while a call waits for a provider it has issued exactly one request
\* more than it has attempts that are over, so one request is outstanding;
\* a step issues at most one request, and within a call only the step in
\* which the attempt before it is over (its response, its error or its
\* timeout arrived) issues the next one.
C15_AttemptsAreSequential ==
    /\ [](fw.pc \in {"awaitFetch", "awaitBody"} => RequestsOfCall - fw.i = 1)
    /\ [](fw.pc = "returned" => RequestsOfCall \in {fw.i, fw.i + 1})
    /\ [][requests' # requests =>
            /\ \E api \in 0..(NumApis - 1) : requests' = Append(requests, api)
            /\ \/ fw.pc \in {"idle", "returned"} /\ Len(starts') = Len(starts) + 1
               \/ /\ fw.pc \in {"awaitFetch", "awaitBody"}
                  /\ starts' = starts
                  /\ fw'.pc = "awaitFetch"
                  /\ fw'.i = fw.i + 1]_vars

\* The third attempt of a call waits for its response body: three requests
\* issued, two attempts over.
C15_Witness ==
    /\ fw.pc = "awaitBody"
    /\ fw.i = 2
    /\ RequestsOfCall = 3

\* A step in which the attempt in progress fails: the fetch rejects or is
\* aborted by the timeout, the status is not ok, the body cannot be read, the
\* parser throws, or the parsed word is missing, empty or too long.
AttemptFails ==
    \/ FetchRejects
    \/ TimeoutFires
    \/ FetchResolves(FALSE)
    \/ BodyFails
    \/ \E data \in Bodies, r \in Range(RandSamples) :
          /\ LET word == parser(fw.api, data, r)
             IN  \/ word.t = "throw"
                 \/ ~Truthy(word)
                 \/ word.t = "string" /\ Len(word.s) > fw.maxLength
          /\ BodyArrives(data, r)

\* C16: a failed attempt of any kind is followed, in the same call and for
\* the same maxLength, by a request to the next provider in rotation, or
\* after the fourth attempt by the local fallback, whose word is returned;
\* the call does not end before, and nothing is thrown to the caller.
C16_FailuresFallThrough ==
    [][AttemptFails =>
        /\ fw'.maxLength = fw.maxLength
        /\ fw'.caller = fw.caller
        /\ starts' = starts
        /\ IF fw.i < 3
           THEN /\ fw'.pc = "awaitFetch"
                /\ fw'.i = fw.i + 1
                /\ fw'.api = (fw.api + 1) % 4
                /\ requests' = Append(requests, fw'.api)
           ELSE /\ fw'.pc = "returned"
                /\ requests' = requests
                /\ fw'.value.t = "string"
                /\ \E rs \in Tapes : fw'.value.s = localFallback(fw.maxLength, rs)]_vars

\* A call whose first three attempts failed waits for the fourth provider
\* it asked, and a call has ended in the fallback after four failures.
C16_Witness ==
    /\ Len(starts) = 2
    /\ AttemptsOf(1) = 4
    /\ fw.pc = "awaitFetch"
    /\ fw.i = 3
    /\ fw.api = 3

\* bcdfghjklmnpqrstvwxyz and aeiou as sets of code units.
ConsonantPool == (98..122) \ {101, 105, 111, 117}
VowelPool == {97, 101, 105, 111, 117}

\* w has a consonant at positions 0, 2, ... and a vowel at positions 1, 3, ...
Alternates(w) ==
    \A k \in 1..Len(w) :
        IF (k - 1) % 2 = 0 THEN w[k] \in ConsonantPool ELSE w[k] \in VowelPool

\* C18: generateFallbackWord(n) has exactly n characters, consonants (of a
\* pool of 21) at even positions and vowels (of a pool of 5) at odd ones,
\* for every n >= 0; and a fetchRandomWord call with maxLength in 1..3 whose
\* attempts all failed returns such a string of exactly maxLength characters.
C18_SyntheticWordAlternates ==
    /\ Len(consonants) = 21 /\ Range(consonants) = ConsonantPool
    /\ Len(vowels) = 5 /\ Range(vowels) = VowelPool
    /\ \A n \in 0..MaxLength : \A rs \in Tapes :
          LET w == generateFallbackWord(n, rs)
          IN  Len(w) = n /\ Alternates(w)
    /\ (fw.pc = "returned" /\ fw.i >= NumApis /\ fw.maxLength \in 1..3) =>
          /\ fw.value.t = "string"
          /\ Len(fw.value.s) = fw.maxLength
          /\ Alternates(fw.value.s)

\* All four providers failed a call for at most 3 characters, and it
\* returned "kuz".
C18_Witness ==
    /\ fw.pc = "returned"
    /\ fw.i = 4
    /\ RequestsOfCall = 4
    /\ fw.maxLength = 3
    /\ Len(fw.value.s) = 3
    /\ fw.value.s[1] \in ConsonantPool
    /\ fw.value.s[2] \in VowelPool
    /\ fw.value.s[3] \in ConsonantPool

\* C20: in word mode with a non-empty character set and a case-adjusted
\* word w shorter than `length`, the password is filler[0..p) + w +
\* filler[p..] where the filler has length - |w| characters, all of the
\* character set, and p lies in [0, |filler|]; it has exactly `length`
\* characters.  With an empty character set the password holds no filler:
\* it is w itself (w cut to `length` if case adjustment made it longer).
C20_WordSplicedIntoFiller ==
    (gp.pc = "done" /\ gp.options.word) =>
        LET w == gp.caseAdjustedWord
            cs == ExpectedCharSet(gp.options)
            filler == gp.randomChars
            p == gp.insertPos
        IN  /\ (cs # <<>> /\ Len(w) < gp.length) =>
                  /\ Len(filler) = gp.length - Len(w)
                  /\ Range(filler) \subseteq Range(cs)
                  /\ p \in 0..Len(filler)
                  /\ gp.password = SubSeq(filler, 1, p) \o w
                                      \o SubSeq(filler, p + 1, Len(filler))
                  /\ Len(gp.password) = gp.length
            /\ cs = <<>> =>
                  /\ gp.password = SubSeq(w, 1, Min(Len(w), gp.length))
                  /\ Len(w) <= gp.length => gp.password = w

\* The word "koala" sits at the very end of a 9-character password, after
\* 4 digits.
C20_Witness ==
    /\ gp.pc = "done"
    /\ gp.options.word /\ gp.options.numbers
    /\ ~gp.options.lower /\ ~gp.options.upper /\ ~gp.options.symbols
    /\ gp.length = 9
    /\ gp.caseAdjustedWord = <<107, 111, 97, 108, 97>>
    /\ gp.insertPos = 4
    /\ Len(gp.randomChars) = 4
    /\ SubSeq(gp.password, 5, 9) = <<107, 111, 97, 108, 97>>

\* The same word at the very start of the password.
C20_WordFirst ==
    /\ gp.pc = "done"
    /\ gp.options.word /\ gp.options.numbers
    /\ gp.length = 9
    /\ gp.insertPos = 0
    /\ Len(gp.randomChars) = 4
    /\ SubSeq(gp.password, 1, 5) = <<107, 111, 97, 108, 97>>

\* A fetchRandomWord call that ended in its local fallback returned a word
\* of the built-in list of at most maxLength characters if the list has
\* one, and a synthetic word of maxLength characters only if it has none;
\* it had asked all four providers before.
FallbackOrder ==
    (fw.pc = "returned" /\ fw.i >= NumApis) =>
        /\ RequestsOfCall = 4
        /\ fw.value.t = "string"
        /\ IF \E n \in 1..Len(localWords) : Len(localWords[n]) <= fw.maxLength
           THEN fw.value.s \in Range(localWords) /\ Len(fw.value.s) <= fw.maxLength
           ELSE /\ fw.value.s \notin Range(localWords)
                /\ Len(fw.value.s) = fw.maxLength
                /\ Alternates(fw.value.s)

\* generatePassword(10, word only) resumes after all four providers failed.
ScenarioResumes ==
    /\ ResumeGeneratePassword
    /\ fw.i >= NumApis
    /\ gp.length = 10
    /\ gp.options.word /\ NoClassFlag(gp.options)

\* C17 (as stated): the local fallback follows the four provider attempts
\* and prefers the built-in list to the synthetic generator; and with
\* length = 10, word only and all providers failing, generatePassword
\* returns a word of the built-in list of at most 10 characters.
C17_FallbackReturnsDictionaryWord ==
    /\ []FallbackOrder
    /\ [][ScenarioResumes =>
            /\ gp'.pc = "done"
            /\ gp'.password \in Range(localWords)
            /\ Len(gp'.password) <= 10]_vars

\* C17 (amended): the same fallback order; and with length = 10, word only
\* and all providers failing, generatePassword returns a word of the
\* built-in list of at most 8 characters in the letter case wordCase
\* selects: as it is for lower, in capitals for upper, each letter in either
\* case for random.
C17_FallbackReturnsCasedDictionaryWord ==
    /\ []FallbackOrder
    /\ [][ScenarioResumes =>
            /\ gp'.pc = "done"
            /\ fw.maxLength = 8
            /\ fw.value.s \in Range(localWords)
            /\ Len(fw.value.s) <= 8
            /\ Len(gp'.password) = Len(fw.value.s)
            /\ gp'.wordCase = "lower" => gp'.password = fw.value.s
            /\ gp'.wordCase = "upper" => gp'.password = toUpperCase(fw.value.s)
            /\ gp'.wordCase = "random" =>
                  \E rs \in Tapes : gp'.password = randomizeCase(fw.value.s, rs)]_vars

\* All four providers failed and generatePassword(10, word only, upper)
\* returned "AVOCADO", which is no entry of the built-in list.
C17_Witness ==
    /\ gp.pc = "done"
    /\ gp.length = 10
    /\ gp.wordCase = "upper"
    /\ gp.options.word /\ NoClassFlag(gp.options)
    /\ requests = <<0, 1, 2, 3>>
    /\ gp.word.s \in Range(localWords)
    /\ Len(gp.word.s) = 7
    /\ gp.password = toUpperCase(gp.word.s)
    /\ gp.password \notin Range(localWords)

\* C19: with word inclusion enabled generatePassword asks fetchRandomWord
\* for a word of at most min(length, 8) characters, whatever class flags
\* are set, and the word it embeds has at most 8 characters, in both copies
\* of generatePassword.
C19_WordCappedAtEight ==
    /\ gp.pc = "awaitWord" => fw.maxLength = Min(gp.length, 8)
    /\ (gp.pc = "done" /\ gp.options.word) => Len(gp.word.s) <= 8

\* C22: generatePassword never gets a synthetic word.  For every length of
\* the slider, 4..32, it asks fetchRandomWord for min(length, 8) >= 4
\* characters, the built-in list has an entry of 4 characters, and a call
\* whose providers all failed therefore returns an entry of the built-in
\* list, which generatePassword embeds.
C22_NoSyntheticWordInPasswords ==
    /\ \E n \in 1..Len(localWords) : Len(localWords[n]) = 4
    /\ fw.caller = "generatePassword" =>
          /\ gp.length \in 4..32
          /\ fw.maxLength = Min(gp.length, 8)
          /\ fw.maxLength >= 4
          /\ (fw.pc = "returned" /\ fw.i >= NumApis) =>
                /\ fw.value.t = "string"
                /\ fw.value.s \in Range(localWords)
                /\ Len(fw.value.s) \in 4..fw.maxLength

\* All four providers failed generatePassword(4, word only) and the call
\* returned a 4-letter entry of the built-in list.
C22_Witness ==
    /\ fw.caller = "generatePassword"
    /\ fw.pc = "returned"
    /\ fw.i = 4
    /\ gp.pc = "awaitWord"
    /\ gp.length = 4
    /\ fw.maxLength = 4
    /\ Len(fw.value.s) = 4
    /\ fw.value.s \in Range(localWords)

\* No increment of the cursor is lost: it counts the attempts both calls
\* have started, and a call starts at most 4 attempts.
ParCursorCountsAttempts ==
    /\ apiIndex = Len(par["A"].asked) + Len(par["B"].asked)
    /\ apiIndex = Len(requests)
    /\ \A c \in Callers : Len(par[c].asked) <= 4

\* C21: with two fetchRandomWord calls in flight that interleave at their
\* awaits, the cursor equals the number of attempts both calls have started,
\* and each call makes at most 4 attempts and requests no provider twice.
C21_CursorSafeUnderInterleaving ==
    /\ ParCursorCountsAttempts
    /\ \A c \in Callers :
          \A m, n \in 1..Len(par[c].asked) :
              m # n => par[c].asked[m] # par[c].asked[n]

\* C23 (as stated): a handleGenerate run that has set loading eventually
\* clears it, so the Generate button does not stay disabled.
C23_LoadingEventuallyCleared == app.loading ~> ~app.loading

\* C24: while the Caesar checkbox is set and no run is in flight, no step,
\* Generate included, issues a provider request or moves the cursor; and the
\* password and the panel that Generate produces are those computed from
\* the phrase, the shift, the length and the four class flags alone, the
\* word flag set or not.
C24_CipherModeLeavesWordSource ==
    /\ [][(app.caesar /\ ~app.loading) =>
            /\ requests' = requests
            /\ apiIndex' = apiIndex
            /\ starts' = starts
            /\ fw' = fw
            /\ gp' = gp]_vars
    /\ [][HandleGenerateCaesar =>
            \E rs \in Tapes :
                LET run == cipherPassword(app.caesarInput, app.caesarShift,
                                          settings.length,
                                          [settings.options EXCEPT !.word = FALSE], rs)
                IN  /\ app'.password = run.pwd
                    /\ app'.caesarVisual = [shown |-> TRUE, plain |-> app.caesarInput,
                                            cipher |-> run.base]
                    /\ ~app'.loading]_vars

\* A word-mode run has asked two providers; then, with the word flag still
\* set, cipher mode made a password of "aZ" and the request log is as it was.
C24_Witness ==
    /\ app.caesar
    /\ settings.options.word
    /\ app.caesarVisual.shown
    /\ app.caesarVisual.plain = <<97, 90>>
    /\ app.password # <<>>
    /\ hg.base = <<100, 67>>
    /\ requests = <<0, 1>>
    /\ apiIndex = 2

\* C26: whenever the Caesar panel is displayed (caesar set and caesarVisual
\* not null), its cipher text is caesarCipher of its plain text with the
\* shift it shows, which is the current caesarShift.
C26_PanelCipherMatchesShownShift ==
    (app.caesar /\ app.caesarVisual.shown) =>
        app.caesarVisual.cipher = caesarCipher(app.caesarVisual.plain, app.caesarShift)

\* C25: handleCopy with an empty password changes nothing.  With a password
\* it sets copied; copied is then true until 2000 ms after the last
\* handleCopy and false from then on, whatever copies were made before,
\* because at most one timeout is pending: the one of the last handleCopy.
C25_CopiedResetsAfterLastCopy ==
    /\ [](/\ Cardinality(copy.timers) <= 1
          /\ copy.copied <=> copy.timers # {}
          /\ copy.copied =>
                /\ copy.last >= 0
                /\ copy.timers = {copy.last + 2000}
                /\ copy.ref = copy.last + 2000
                /\ copy.now <= copy.last + 2000
          /\ (~copy.copied /\ copy.last >= 0) => copy.now >= copy.last + 2000)
    /\ [][(HandleCopy /\ app.password = <<>>) => copy' = copy]_vars
    /\ [][(HandleCopy /\ app.password # <<>>) =>
            /\ copy'.copied
            /\ copy'.last = copy.now]_vars
    /\ [][(copy.copied /\ ~copy'.copied) => copy.now = copy.last + 2000]_vars

\* Copy was pressed at 0 ms and again at 1000 ms; at 2000 ms, when the first
\* timeout would have run, copied is still set and one timeout, due at
\* 3000 ms, is pending.
C25_Witness ==
    /\ copy.prev = 0
    /\ copy.last = 1000
    /\ copy.now = 2000
    /\ copy.copied
    /\ copy.timers = {3000}
    /\ app.password # <<>>

====
